---------------------------- MODULE Spec2Model ----------------------------
(***************************************************************************)
(* A model of fastexcel's sheet-to-Arrow conversion:                       *)
(*   - utils/arrow.rs: schema inference and column naming,                 *)
(*   - types/excelsheet.rs: column materialisation, RecordBatch assembly   *)
(*     and the memoised height()/width() getters,                          *)
(*   - types/python/excelsheet/table.rs: named-table lookup.               *)
(* Cells are modelled by their calamine variant; an Arrow array is a       *)
(* record of its data type, its length and (for typed arrays) its slots.   *)
(***************************************************************************)
EXTENDS Integers, Sequences, FiniteSets, TLC

VARIABLES
    range,          \* arrow_schema_from_column_names_and_range: the range argument
    column_names,   \* ... the column_names argument
    row_idx,        \* ... the row_idx argument
    schema_result,  \* ... its Result<Schema>, NotCalled before the call
    sheet,          \* the ExcelSheet struct
    overflow_checks,\* whether the build traps integer overflow (debug) or wraps (release)
    ret,            \* what the last method call on the sheet returned
    sheets,         \* the calamine Sheets workbook handed to the table functions
    load_calls,     \* how many times load_tables() was invoked on the workbook
    table_out       \* what the last table function returned

vars == <<range, column_names, row_idx, schema_result, sheet, overflow_checks,
          ret, sheets, load_calls, table_out>>

schema_vars == <<range, column_names, row_idx, schema_result>>
sheet_vars == <<sheet, overflow_checks, ret>>
table_vars == <<sheets, load_calls, table_out>>

\* Option<T>: None, or Some(v).  Option<&DataType> of a cell is the variant or NONE.
NONE == "None"
None == [tag |-> "None"]
Some(v) == [tag |-> "Some", v |-> v]

\* Result<T>: Ok(v) or Err(e); NotCalled before the operation has run.
NotCalled == [tag |-> "NotCalled"]
Ok(v) == [tag |-> "Ok", v |-> v]
Err(e) == [tag |-> "Err", err |-> e]

(***************************************************************************)
(* Bounds of the model.                                                    *)
(***************************************************************************)
MaxRows == 3
MaxCols == 2
MaxCells == 4
MaxNames == 4
MaxFields == 2
MaxLoadCalls == 2
UsizeBits == 16

Max(a, b) == IF a < b THEN b ELSE a
SeqsUpTo(S, n) == UNION {[1..k -> S] : k \in 0..n}
RangeOf(s) == {s[i] : i \in DOMAIN s}

(***************************************************************************)
(* calamine: the cell variants and the Range grid.                         *)
(***************************************************************************)
CalDataType == {"Int", "Float", "String", "Bool", "DateTime", "Error", "Empty"}

EmptyRange == [height |-> 0, width |-> 0, cells |-> <<>>]

\* A Range is rectangular; the empty Range has height 0 and width 0.
RangesOver(kinds, maxRows, maxCols, maxCells) ==
    {EmptyRange} \cup
    UNION {{[height |-> h, width |-> w, cells |-> c] : c \in [1..h -> [1..w -> kinds]]} :
           <<h, w>> \in {d \in (1..maxRows) \X (1..maxCols) : d[1] * d[2] <= maxCells}}

\* Range::get((row, col)) -> Option<&DataType>, 0-indexed and bounds-checked.
RangeGet(data, row, col) ==
    IF row < data.height /\ col < data.width THEN data.cells[row + 1][col + 1] ELSE NONE

(***************************************************************************)
(* utils/arrow.rs                                                          *)
(***************************************************************************)
\* The Result of get_arrow_column_type for a cell that is present.
ColumnTypeOfCell(cell) ==
    CASE cell = "Int" -> Ok("Int64")
      [] cell = "Float" -> Ok("Float64")
      [] cell = "String" -> Ok("Utf8")
      [] cell = "Bool" -> Ok("Boolean")
      [] cell = "DateTime" -> Ok("Date64")
      [] cell = "Error" -> Err([msg |-> "Error in calamine cell: {err:?}",
                                args |-> [err |-> "CellErrorType"]])
      [] cell = "Empty" -> Ok("Null")

\* As get_arrow_column_type, but sampling the header row whatever row is asked for.
get_arrow_column_type_row0(data, row, col) ==
    IF RangeGet(data, 0, col) = NONE
    THEN Err([msg |-> "Could not retrieve data at ({row},{col})",
              args |-> [row |-> row, col |-> col]])
    ELSE ColumnTypeOfCell(RangeGet(data, 0, col))

\* An error is its format string and the values interpolated into it, by name.
get_arrow_column_type(data, row, col) ==
    IF RangeGet(data, row, col) = NONE
    THEN Err([msg |-> "Could not retrieve data at ({row},{col})",
              args |-> [row |-> row, col |-> col]])
    ELSE ColumnTypeOfCell(RangeGet(data, row, col))

\* Rust's Display of a usize: its decimal digits.
Digit(d) == <<"0", "1", "2", "3", "4", "5", "6", "7", "8", "9">>[d + 1]

RECURSIVE FormatUsize(_)
FormatUsize(n) == IF n < 10 THEN Digit(n) ELSE FormatUsize(n \div 10) \o Digit(n % 10)

FieldNames(fields) == {fields[i].name : i \in DOMAIN fields}

\* format!("{name}_{depth}"), or the name itself at depth 0.
Alias(name, depth) == IF depth = 0 THEN name ELSE name \o "_" \o FormatUsize(depth)

\* As rec, but taking the next alias without looking whether it is free.
rec_no_recheck(name, fields, depth) ==
    IF Alias(name, depth) \in FieldNames(fields)
    THEN Alias(name, depth + 1)
    ELSE Alias(name, depth)

RECURSIVE rec(_, _, _)
rec(name, fields, depth) ==
    IF Alias(name, depth) \in FieldNames(fields)
    THEN rec(name, fields, depth + 1)
    ELSE Alias(name, depth)

\* As alias_for_name, but numbering the aliases of a taken name from 2.
alias_from_two(name, fields) ==
    IF name \in FieldNames(fields) THEN rec(name, fields, 2) ELSE name

alias_for_name(name, fields) == rec(name, fields, 0)

Field(name, ty, nullable) == [name |-> name, data_type |-> ty, nullable |-> nullable]

\* The for loop from col_idx on; `?` returns the first error.
RECURSIVE SchemaLoop(_, _, _, _, _)
SchemaLoop(data, names, row, col_idx, fields) ==
    IF col_idx >= Len(names)
    THEN Ok(fields)
    ELSE LET col_type == get_arrow_column_type(data, row, col_idx)
         IN IF col_type.tag = "Err"
            THEN col_type
            ELSE SchemaLoop(data, names, row, col_idx + 1,
                            Append(fields, Field(alias_for_name(names[col_idx + 1], fields),
                                                 col_type.v, TRUE)))

\* As arrow_schema_from_column_names_and_range, but leaving out the last column.
arrow_schema_without_last(data, names, row) ==
    SchemaLoop(data, SubSeq(names, 1, Len(names) - 1), row, 0, <<>>)

arrow_schema_from_column_names_and_range(data, names, row) ==
    SchemaLoop(data, names, row, 0, <<>>)

InferSchema ==
    /\ schema_result = NotCalled
    /\ schema_result' = arrow_schema_from_column_names_and_range(range, column_names, row_idx)
    /\ UNCHANGED <<range, column_names, row_idx, sheet_vars, table_vars>>

(***************************************************************************)
(* types/excelsheet.rs                                                     *)
(***************************************************************************)
UsizeMod == 2 ^ UsizeBits

ExcelSheet_new(name, schema, data) ==
    [name |-> name, schema |-> schema, data |-> data, height |-> None, width |-> None]

\* calamine's accessors on a cell, as the create_*_array functions call them.  The
\* get_* accessors answer for their own variant only; as_datetime is a converting
\* accessor: it reads an Int or a Float cell as a serial date, as it reads a
\* DateTime cell.  A value is modelled by the variant it was read from.
get_bool(cell) == IF cell = "Bool" THEN Some(cell) ELSE None
get_int(cell) == IF cell = "Int" THEN Some(cell) ELSE None
get_float(cell) == IF cell = "Float" THEN Some(cell) ELSE None
get_string(cell) == IF cell = "String" THEN Some(cell) ELSE None
as_datetime(cell) == IF cell \in {"Int", "Float", "DateTime"} THEN Some(cell) ELSE None

\* An array built by from_iter over (1..height): one slot per row of the iterator;
\* data.get(..).and_then(..) is None for an absent cell.
ArrayFromIter(ty, slots) == [data_type |-> ty, len |-> Len(slots), slots |-> slots]

create_boolean_array(data, col, height) ==
    ArrayFromIter("Boolean",
                  [row \in 1..(height - 1) |->
                      LET cell == RangeGet(data, row, col)
                      IN IF cell = NONE THEN None ELSE get_bool(cell)])

create_int_array(data, col, height) ==
    ArrayFromIter("Int64",
                  [row \in 1..(height - 1) |->
                      LET cell == RangeGet(data, row, col)
                      IN IF cell = NONE THEN None ELSE get_int(cell)])

create_float_array(data, col, height) ==
    ArrayFromIter("Float64",
                  [row \in 1..(height - 1) |->
                      LET cell == RangeGet(data, row, col)
                      IN IF cell = NONE THEN None ELSE get_float(cell)])

create_string_array(data, col, height) ==
    ArrayFromIter("Utf8",
                  [row \in 1..(height - 1) |->
                      LET cell == RangeGet(data, row, col)
                      IN IF cell = NONE THEN None ELSE get_string(cell)])

create_date_array(data, col, height) ==
    ArrayFromIter("Timestamp(Millisecond)",
                  [row \in 1..(height - 1) |->
                      LET cell == RangeGet(data, row, col)
                      IN IF cell = NONE THEN None ELSE as_datetime(cell)])

\* NullArray::new(len): a length and no buffers.
NullArray_new(len) == [data_type |-> "Null", len |-> len, slots |-> <<>>]

Panic(msg) == [tag |-> "Panic", msg |-> msg]

\* `height - 1` on usize: an overflow-checking build panics at 0 - 1, any other wraps.
UsizeSub(a, b, checks) ==
    IF a >= b THEN Ok(a - b)
    ELSE IF checks THEN Panic("attempt to subtract with overflow")
    ELSE Ok((a - b) % UsizeMod)

\* The match on field.data_type(): Ok(array), or the panic that ends the conversion.
ColumnArray(data, col_idx, height, ty, checks) ==
    CASE ty = "Boolean" -> Ok(create_boolean_array(data, col_idx, height))
      [] ty = "Int64" -> Ok(create_int_array(data, col_idx, height))
      [] ty = "Float64" -> Ok(create_float_array(data, col_idx, height))
      [] ty = "Utf8" -> Ok(create_string_array(data, col_idx, height))
      [] ty = "Date64" -> Ok(create_date_array(data, col_idx, height))
      [] ty = "Null" -> LET len == UsizeSub(height, 1, checks)
                        IN IF len.tag = "Panic" THEN len ELSE Ok(NullArray_new(len.v))
      [] OTHER -> Panic("internal error: entered unreachable code")

\* The iterator of (name, array) pairs, consumed in field order up to the first panic.
RECURSIVE ColumnsIter(_, _, _, _, _)
ColumnsIter(data, schema, height, checks, done) ==
    IF Len(done) = Len(schema)
    THEN Ok(done)
    ELSE LET col_idx == Len(done)
             array == ColumnArray(data, col_idx, height, schema[col_idx + 1].data_type, checks)
         IN IF array.tag = "Panic"
            THEN array
            ELSE ColumnsIter(data, schema, height, checks,
                             Append(done, [name |-> schema[col_idx + 1].name, array |-> array.v]))

NullCount(array) ==
    IF array.data_type = "Null" THEN array.len
    ELSE Cardinality({i \in DOMAIN array.slots : array.slots[i] = None})

\* arrow's RecordBatch::try_from_iter: the schema is taken from the arrays; a batch
\* needs a column, and all columns of one length.
RecordBatch_try_from_iter(columns) ==
    IF columns = <<>>
    THEN Err([msg |-> "must either specify a row count or at least one column",
              args |-> [none |-> TRUE]])
    ELSE IF \E i \in DOMAIN columns : columns[i].array.len # columns[1].array.len
    THEN Err([msg |-> "all columns in a record batch must have the same length",
              args |-> [none |-> TRUE]])
    ELSE Ok([schema |-> [i \in DOMAIN columns |->
                            Field(columns[i].name, columns[i].array.data_type,
                                  NullCount(columns[i].array) > 0)],
             columns |-> [i \in DOMAIN columns |-> columns[i].array],
             num_rows |-> columns[1].array.len])

\* Result::with_context: an error is wrapped, anything else passes.
WithContext(result, msg, args) ==
    IF result.tag = "Err"
    THEN Err([msg |-> msg, args |-> args, source |-> result.err])
    ELSE result

\* impl TryFrom<&ExcelSheet> for RecordBatch
RecordBatch_try_from(value, checks) ==
    LET height == value.data.height
        iter == ColumnsIter(value.data, value.schema, height, checks, <<>>)
    IN IF iter.tag = "Panic"
       THEN iter
       ELSE WithContext(RecordBatch_try_from_iter(iter.v),
                        "Could not convert sheet {} to RecordBatch", [name |-> value.name])

\* The IPC serialisation of a batch: the bytes stand for the batch they encode.
record_batch_to_pybytes(rb) == Ok([pybytes_of |-> rb])

ExcelSheet_to_arrow(self, checks) ==
    LET rb == WithContext(RecordBatch_try_from(self, checks),
                          "Could not create RecordBatch from sheet {}", [name |-> self.name])
    IN IF rb.tag = "Ok" THEN record_batch_to_pybytes(rb.v) ELSE rb

\* As HeightValue, but subtracting the header row from an empty grid as well.
HeightValueNoGuard(data_height) == (data_height - 1) % UsizeMod

\* The number of data rows that height() computes from the grid's height.
HeightValue(data_height) == IF data_height > 0 THEN data_height - 1 ELSE 0

NoSheet == [absent |-> TRUE]

width ==
    /\ sheet # NoSheet
    /\ IF sheet.width.tag = "Some"
       THEN /\ ret' = [tag |-> "width", v |-> sheet.width.v]
            /\ UNCHANGED sheet
       ELSE /\ sheet' = [sheet EXCEPT !.width = Some(Len(sheet.schema))]
            /\ ret' = [tag |-> "width", v |-> Len(sheet.schema)]
    /\ UNCHANGED <<schema_vars, overflow_checks, table_vars>>

height ==
    /\ sheet # NoSheet
    /\ IF sheet.height.tag = "Some"
       THEN /\ ret' = [tag |-> "height", v |-> sheet.height.v]
            /\ UNCHANGED sheet
       ELSE /\ sheet' = [sheet EXCEPT !.height = Some(HeightValue(sheet.data.height))]
            /\ ret' = [tag |-> "height", v |-> HeightValue(sheet.data.height)]
    /\ UNCHANGED <<schema_vars, overflow_checks, table_vars>>

to_arrow ==
    /\ sheet # NoSheet
    /\ ret' = [tag |-> "to_arrow", v |-> ExcelSheet_to_arrow(sheet, overflow_checks)]
    /\ UNCHANGED <<schema_vars, sheet, overflow_checks, table_vars>>

\* The caller of the two: a sheet is built from the inferred Schema and its grid.
load_sheet ==
    /\ sheet = NoSheet
    /\ schema_result.tag = "Ok"
    /\ sheet' = ExcelSheet_new("Sheet1", schema_result.v, range)
    /\ UNCHANGED <<schema_vars, overflow_checks, ret, table_vars>>

(***************************************************************************)
(* types/python/excelsheet/table.rs                                        *)
(***************************************************************************)
\* The calamine Sheets variants: one per container format.
SheetsFormats == {"Xls", "Xlsx", "Xlsb", "Ods"}

\* Xlsx::load_tables: reads the table metadata once; a workbook whose metadata
\* cannot be read makes it fail.
load_tables(xlsx) ==
    IF xlsx.loaded THEN Ok(xlsx)
    ELSE IF xlsx.readable THEN Ok([xlsx EXCEPT !.loaded = TRUE])
    ELSE Err([kind |-> "XlsxError", msg |-> "load_tables failed"])

table_names(xlsx) == [i \in DOMAIN xlsx.tables |-> xlsx.tables[i].name]

table_names_in_sheet(xlsx, sn) ==
    LET InSheet(t) == t.sheet = sn
        ts == SelectSeq(xlsx.tables, InSheet)
    IN [i \in DOMAIN ts |-> ts[i].name]

table_by_name(xlsx, name) ==
    IF \E i \in DOMAIN xlsx.tables : xlsx.tables[i].name = name
    THEN Ok(CHOOSE t \in RangeOf(xlsx.tables) : t.name = name)
    ELSE Err([kind |-> "XlsxError", msg |-> "TableNotFound"])

OnlyXlsx == [kind |-> "Internal", msg |-> "Currently only XLSX files are supported for tables"]

\* As extract_table_names, but answering any other format with an empty list.
extract_table_names_empty(wb, sheet_name) ==
    IF wb.format = "Xlsx"
    THEN LET loaded == load_tables(wb)
         IN IF loaded.tag = "Err"
            THEN [result |-> loaded, sheets |-> wb, loads |-> 1]
            ELSE [result |-> Ok(Ok(IF sheet_name = NONE
                                   THEN table_names(loaded.v)
                                   ELSE table_names_in_sheet(loaded.v, sheet_name))),
                  sheets |-> loaded.v, loads |-> 1]
    ELSE [result |-> Ok(Ok(<<>>)), sheets |-> wb, loads |-> 0]

\* Each function answers with its Result, the workbook as it leaves it, and whether
\* it invoked load_tables.
extract_table_names(wb, sheet_name) ==
    IF wb.format = "Xlsx"
    THEN LET loaded == load_tables(wb)
         IN IF loaded.tag = "Err"
            THEN [result |-> loaded, sheets |-> wb, loads |-> 1]
            ELSE [result |-> Ok(Ok(IF sheet_name = NONE
                                   THEN table_names(loaded.v)
                                   ELSE table_names_in_sheet(loaded.v, sheet_name))),
                  sheets |-> loaded.v, loads |-> 1]
    ELSE [result |-> Ok(Err(OnlyXlsx)), sheets |-> wb, loads |-> 0]

extract_table_range(name, wb) ==
    IF wb.format = "Xlsx"
    THEN LET loaded == load_tables(wb)
         IN IF loaded.tag = "Err"
            THEN [result |-> loaded, sheets |-> wb, loads |-> 1]
            ELSE LET table == table_by_name(loaded.v, name)
                 IN [result |-> IF table.tag = "Err"
                                THEN Err([kind |-> "XlsxError", msg |-> "TableNotFound",
                                          context |-> "Could not load table named {name}",
                                          args |-> [name |-> name]])
                                ELSE Ok(Ok(table.v)),
                     sheets |-> loaded.v, loads |-> 1]
    ELSE [result |-> Ok(Err(OnlyXlsx)), sheets |-> wb, loads |-> 0]

SheetNameArgs == {NONE, "S1", "S2"}
TableNameArgs == {"T1", "T2", "T3"}

ExtractTableNames ==
    \E sheet_name \in SheetNameArgs :
        LET out == extract_table_names(sheets, sheet_name)
        IN /\ load_calls + out.loads <= MaxLoadCalls
           /\ table_out' = [tag |-> "extract_table_names", v |-> out.result]
           /\ sheets' = out.sheets
           /\ load_calls' = load_calls + out.loads
           /\ UNCHANGED <<schema_vars, sheet_vars>>

ExtractTableRange ==
    \E name \in TableNameArgs :
        LET out == extract_table_range(name, sheets)
        IN /\ load_calls + out.loads <= MaxLoadCalls
           /\ table_out' = [tag |-> "extract_table_range", v |-> out.result]
           /\ sheets' = out.sheets
           /\ load_calls' = load_calls + out.loads
           /\ UNCHANGED <<schema_vars, sheet_vars>>

(***************************************************************************)
(* Idle values of the parts a specification does not exercise.             *)
(***************************************************************************)
NoWorkbook == [format |-> "Xlsx", tables |-> <<>>, readable |-> TRUE, loaded |-> FALSE]

SchemaIdle ==
    /\ range = EmptyRange /\ column_names = <<>> /\ row_idx = 0 /\ schema_result = NotCalled
SheetIdle ==
    /\ sheet = NoSheet /\ overflow_checks = FALSE /\ ret = NotCalled
TableIdle ==
    /\ sheets = NoWorkbook /\ load_calls = 0 /\ table_out = NotCalled

(***************************************************************************)
(* Column naming: header lists over names that collide with one another    *)
(* and with generated aliases, on a header row and one data row.           *)
(***************************************************************************)
Headers == {"a", "a_1", "a_2", ""}
SampleKinds == {"Int", "String"}

\* A header row of text over one data row, as wide as the header list.
NameRanges(n) ==
    IF n = 0 THEN {EmptyRange}
    ELSE {[height |-> 2, width |-> n, cells |-> <<[c \in 1..n |-> "String"], row>>] :
            row \in [1..n -> SampleKinds]}

InitNames ==
    /\ column_names \in SeqsUpTo(Headers, MaxNames)
    /\ row_idx = 1
    /\ range \in NameRanges(Len(column_names))
    /\ schema_result = NotCalled
    /\ SheetIdle /\ TableIdle

NextNames == InferSchema
SpecNames == InitNames /\ [][NextNames]_vars

(***************************************************************************)
(* Schema inference over every grid of the bounds.                         *)
(***************************************************************************)
SchemaHeaders == {"amount", "id"}

InitSchema ==
    /\ range \in RangesOver(CalDataType, MaxRows, MaxCols, MaxCells)
    /\ column_names \in SeqsUpTo(SchemaHeaders, MaxCols)
    /\ row_idx \in 0..MaxRows
    /\ schema_result = NotCalled
    /\ SheetIdle /\ TableIdle

NextSchema == InferSchema \/ load_sheet \/ width
SpecSchema == InitSchema /\ [][NextSchema]_vars

(***************************************************************************)
(* Any ExcelSheet that ExcelSheet::new accepts, on every grid of the       *)
(* bounds, under either build.                                            *)
(***************************************************************************)
ArrowDataType == {"Boolean", "Int64", "Float64", "Utf8", "Date64", "Null", "Int32"}

\* Field lists with the names the namer gives distinct headers.
SchemasOver(types, n) ==
    {[i \in DOMAIN tys |-> Field("c" \o FormatUsize(i - 1), tys[i], TRUE)] :
        tys \in SeqsUpTo(types, n)}

InitSheet ==
    /\ sheet \in {ExcelSheet_new("Sheet1", sc, d) :
                    sc \in SchemasOver(ArrowDataType, MaxFields),
                    d \in RangesOver(CalDataType, MaxRows, MaxCols, MaxCells)}
    /\ overflow_checks \in BOOLEAN
    /\ ret = NotCalled
    /\ SchemaIdle /\ TableIdle

NextSheet == to_arrow
SpecSheet == InitSheet /\ [][NextSheet]_vars

(***************************************************************************)
(* The getters and to_arrow in any order on one sheet.                     *)
(***************************************************************************)
MemoKinds == {"Int", "Empty"}
MemoTypes == {"Int64", "Null", "Utf8"}

InitMemo ==
    /\ sheet \in {ExcelSheet_new("Sheet1", sc, d) :
                    sc \in SchemasOver(MemoTypes, MaxFields),
                    d \in RangesOver(MemoKinds, MaxRows, MaxCols, MaxCells)}
    /\ overflow_checks \in BOOLEAN
    /\ ret = NotCalled
    /\ SchemaIdle /\ TableIdle

NextMemo == height \/ width \/ to_arrow
SpecMemo == InitMemo /\ [][NextMemo]_vars

(***************************************************************************)
(* Table lookup on workbooks of every container format.                    *)
(***************************************************************************)
Table(name, sheet_name) == [name |-> name, sheet |-> sheet_name]

Workbooks ==
    {[format |-> f, tables |-> ts, readable |-> r, loaded |-> FALSE] :
        f \in SheetsFormats,
        ts \in {<<>>, <<Table("T1", "S1")>>, <<Table("T1", "S1"), Table("T2", "S1")>>,
                <<Table("T1", "S1"), Table("T2", "S2")>>},
        r \in BOOLEAN}

InitTable ==
    /\ sheets \in Workbooks
    /\ load_calls = 0
    /\ table_out = NotCalled
    /\ SchemaIdle /\ SheetIdle

NextTable == ExtractTableNames \/ ExtractTableRange
SpecTable == InitTable /\ [][NextTable]_vars

(***************************************************************************)
(* Properties.                                                             *)
(***************************************************************************)
SchemaNames == [i \in DOMAIN schema_result.v |-> schema_result.v[i].name]

\* C1: whenever inference succeeds, the field names of the Schema are pairwise
\* distinct, also for headers that look like generated aliases and for empty headers.
C1_NamesDistinct ==
    schema_result.tag = "Ok" =>
        \A i, j \in DOMAIN schema_result.v :
            i # j => schema_result.v[i].name # schema_result.v[j].name

C1_Witness ==
    /\ schema_result.tag = "Ok"
    /\ column_names = <<"a", "a", "a_1">>
    /\ SchemaNames = <<"a", "a_1", "a_1_1">>

\* C10: the name at index i is the raw header if no earlier output name equals it,
\* otherwise the header followed by "_" and the smallest k >= 1 that no earlier
\* output name has; the names of a prefix of the headers are a prefix of the names;
\* headers without duplicates come back unchanged.
C10_SmallestFreeSuffix ==
    schema_result.tag = "Ok" =>
        /\ \A i \in DOMAIN column_names :
             LET h == column_names[i]
                 earlier == {SchemaNames[j] : j \in 1..(i - 1)}
                 Suffixed(k) == h \o "_" \o FormatUsize(k)
             IN IF h \notin earlier
                THEN SchemaNames[i] = h
                ELSE \E k \in 1..i :
                        /\ SchemaNames[i] = Suffixed(k)
                        /\ Suffixed(k) \notin earlier
                        /\ \A m \in 1..(k - 1) : Suffixed(m) \in earlier
        /\ \A n \in 0..Len(column_names) :
             LET prefix == arrow_schema_from_column_names_and_range(
                               range, SubSeq(column_names, 1, n), row_idx)
             IN /\ prefix.tag = "Ok"
                /\ \A i \in 1..n : prefix.v[i].name = SchemaNames[i]
        /\ (\A i, j \in DOMAIN column_names : i # j => column_names[i] # column_names[j])
              => SchemaNames = column_names

C10_Witness ==
    /\ schema_result.tag = "Ok"
    /\ column_names = <<"a_1", "a", "a">>
    /\ SchemaNames = <<"a_1", "a", "a_2">>

\* The element type the inference table gives each sampled variant (Date64 is
\* Arrow's 64-bit millisecond temporal type).
C4_TypeOf(cell) ==
    CASE cell = "Int" -> "Int64"
      [] cell = "Float" -> "Float64"
      [] cell = "String" -> "Utf8"
      [] cell = "Bool" -> "Boolean"
      [] cell = "DateTime" -> "Date64"
      [] cell = "Empty" -> "Null"
      [] OTHER -> "no type"

\* C4: every Field of an inferred Schema is nullable and has the element type that
\* the table gives the variant of the cell at (sample row, column), whatever the
\* other rows of the column hold.
C4_SampleCellDecidesType ==
    schema_result.tag = "Ok" =>
        \A c \in DOMAIN schema_result.v :
            /\ schema_result.v[c].nullable
            /\ schema_result.v[c].data_type = C4_TypeOf(RangeGet(range, row_idx, c - 1))

C4_Witness ==
    /\ schema_result.tag = "Ok"
    /\ range.height = 2 /\ row_idx = 1 /\ Len(column_names) = 2
    /\ RangeGet(range, 0, 0) = "String" /\ RangeGet(range, 1, 0) = "DateTime"
    /\ RangeGet(range, 0, 1) = "Int" /\ RangeGet(range, 1, 1) = "Empty"
    /\ schema_result.v[1].data_type = "Date64"
    /\ schema_result.v[2].data_type = "Null"

\* C5 as stated: a returned Schema has as many fields as the grid has columns, for
\* every list of column names, and width() answers the grid's width.
C5_FieldsEqualGridWidth ==
    /\ schema_result.tag = "Ok" => Len(schema_result.v) = range.width
    /\ ret.tag = "width" => ret.v = range.width

\* C5 amended: a returned Schema has as many fields as column names were supplied
\* (so as many as the grid has columns exactly when one name per column was
\* supplied), and width() on the sheet built from it answers that number.
C5_FieldsEqualNames ==
    /\ schema_result.tag = "Ok" =>
         /\ Len(schema_result.v) = Len(column_names)
         /\ (Len(schema_result.v) = range.width) <=> (Len(column_names) = range.width)
    /\ ret.tag = "width" =>
         /\ ret.v = Len(schema_result.v)
         /\ ret.v = Len(column_names)

C5_Witness ==
    /\ schema_result.tag = "Ok"
    /\ range.width = 2 /\ Len(column_names) = 1
    /\ Len(schema_result.v) = 1
    /\ ret.tag = "width" /\ ret.v = 1

\* The first column whose sampled cell is an Error cell.
FirstErrorColumn ==
    CHOOSE c \in 0..(Len(column_names) - 1) :
        /\ RangeGet(range, row_idx, c) = "Error"
        /\ \A d \in 0..(c - 1) : RangeGet(range, row_idx, d) # "Error"

\* C6: when a sampled cell is an Error cell, inference fails and the error carries
\* the sample row and the column (its index or its name) of that cell.
C6_ErrorNamesCell ==
    (/\ schema_result # NotCalled
     /\ \E c \in 0..(Len(column_names) - 1) : RangeGet(range, row_idx, c) = "Error")
    => /\ schema_result.tag = "Err"
       /\ "row" \in DOMAIN schema_result.err.args
       /\ schema_result.err.args.row = row_idx
       /\ \/ /\ "col" \in DOMAIN schema_result.err.args
             /\ schema_result.err.args.col = FirstErrorColumn
          \/ /\ "name" \in DOMAIN schema_result.err.args
             /\ schema_result.err.args.name = column_names[FirstErrorColumn + 1]

Batch == ret.v.v.pybytes_of
SupportedTypes == {"Boolean", "Int64", "Float64", "Utf8", "Date64", "Null"}

\* C2: every column array of an assembled batch has max(grid.height() - 1, 0)
\* slots, and on a grid with zero rows the conversion of a sheet with columns of
\* the supported types succeeds.
C2_RowCountParity ==
    ret.tag = "to_arrow" =>
        /\ ret.v.tag = "Ok" =>
             \A i \in DOMAIN Batch.columns :
                 Batch.columns[i].len = Max(sheet.data.height - 1, 0)
        /\ (/\ sheet.data.height = 0
            /\ sheet.schema # <<>>
            /\ \A i \in DOMAIN sheet.schema : sheet.schema[i].data_type \in SupportedTypes)
           => ret.v.tag = "Ok"

\* The one cell variant that infers to an element type.
C3_VariantOf(ty) ==
    CASE ty = "Int64" -> "Int"
      [] ty = "Float64" -> "Float"
      [] ty = "Utf8" -> "String"
      [] ty = "Boolean" -> "Bool"
      [] ty = "Date64" -> "DateTime"
      [] OTHER -> "no variant"

\* The sheet's Schema is the one inferred from its own grid, sampled at row 1.
SchemaInferredFromGrid ==
    LET names == [c \in 1..sheet.data.width |-> "c" \o FormatUsize(c - 1)]
    IN arrow_schema_from_column_names_and_range(sheet.data, names, 1) = Ok(sheet.schema)

\* C3: in an assembled batch, a slot of a column of declared type T is non-null
\* only if the cell it was read from is of the variant that infers to T.  Stated
\* for the sheets whose Schema was inferred from their own grid.
C3_TypeExact ==
    (ret.tag = "to_arrow" /\ ret.v.tag = "Ok" /\ SchemaInferredFromGrid) =>
        \A i \in DOMAIN Batch.columns :
            \A r \in DOMAIN Batch.columns[i].slots :
                Batch.columns[i].slots[r] # None
                    => RangeGet(sheet.data, r, i - 1) = C3_VariantOf(sheet.schema[i].data_type)

\* C9: batch assembly ends with a complete batch or with an error value that names
\* the sheet, whatever element types the Schema declares; it never panics.  Stated
\* for the sheets on a grid with at least one row.
C9_NeverAborts ==
    (ret.tag = "to_arrow" /\ sheet.data.height > 0) =>
        \/ ret.v.tag = "Ok"
        \/ /\ ret.v.tag = "Err"
           /\ ret.v.err.args.name = sheet.name

\* C7: on a workbook that is not XLSX both table functions answer with the
\* only-XLSX error and nothing else, and load_tables is never invoked.
C7_OnlyXlsx ==
    sheets.format # "Xlsx" =>
        /\ load_calls = 0
        /\ ~sheets.loaded
        /\ table_out # NotCalled =>
             /\ table_out.v = Ok(Err(OnlyXlsx))
             /\ table_out.v.v.err.msg = "Currently only XLSX files are supported for tables"

C7_Witness ==
    /\ sheets.format = "Ods"
    /\ sheets.tables # <<>>
    /\ table_out.tag = "extract_table_names"

\* What the getters answer and cache.
C8_Answers ==
    /\ ret.tag = "height" => ret.v = Max(sheet.data.height - 1, 0)
    /\ ret.tag = "width" => ret.v = Len(sheet.schema)
    /\ sheet.height # None => sheet.height = Some(Max(sheet.data.height - 1, 0))
    /\ sheet.width # None => sheet.width = Some(Len(sheet.schema))

\* What a call may change.
C8_Step ==
    /\ sheet.height # None => sheet'.height = sheet.height
    /\ sheet.width # None => sheet'.width = sheet.width
    /\ sheet'.name = sheet.name /\ sheet'.schema = sheet.schema /\ sheet'.data = sheet.data
    /\ ret'.tag = "height" => sheet'.width = sheet.width
    /\ ret'.tag = "width" => sheet'.height = sheet.height
    /\ ret'.tag = "to_arrow" => sheet' = sheet

\* C8: over any sequence of height(), width() and to_arrow calls a cache goes from
\* unset to set at most once and keeps its value; height() always answers
\* max(grid.height() - 1, 0) and width() always the same number; height() leaves
\* the width cache, width() the height cache, and all leave name, schema and grid.
C8_Memoized == [](C8_Answers) /\ [][C8_Step]_vars

C8_Witness ==
    /\ sheet.data.height = 0
    /\ sheet.height = Some(0)
    /\ sheet.width = Some(2)
    /\ ret.tag = "height" /\ ret.v = 0

Spec == SpecSchema
=============================================================================
